---- MODULE Spec2Model ----
(***************************************************************************)
(* conv.py: replay of a VGM command stream against a four-channel NES APU  *)
(* model (process_vgm) and run-length encoding of the pitch of every       *)
(* channel at each 184-sample tick.                                        *)
(*                                                                         *)
(* Program variables keep their names.  Channels are numbered 0..3 as in   *)
(* the source; a Note is a record [pitch, duration]; a command is a record *)
(* [cmd, data] with data the payload bytes.  pc is the position of         *)
(* process_vgm: "for" (about to fetch a command), "while" (inside the tick *)
(* loop of a wait command), "returned" (after the loop or a break) and     *)
(* "raised" (an exception left process_vgm, and main with it) and "exit"    *)
(* (main has written the output file).                                     *)
(***************************************************************************)
EXTENDS Integers, Sequences, FiniteSets, TLC

VARIABLES
    channels,               \* channels[i]: the timeline (list of Notes) of channel i
    channel_regs,           \* channel_regs[i][j]: register slot j of channel i
    reg4015,                \* enable mask byte (stored, never read)
    reg4017,                \* frame sequencer mode byte
    length_counters,        \* length_counters[i]
    linear_counter_reload,  \* triangle linear counter reload value
    clock,                  \* accumulated samples not yet turned into ticks
    command,                \* the loop variable: the command fetched last
    pc,                     \* position of process_vgm
    stderr,                 \* opcodes of the warnings printed, in order
    n_cmds,                 \* history: number of commands fetched so far
    ticks,                  \* history: number of iterations of the while loop
    waited,                 \* history: sum of wait_time over the waits handled
    gate_log,               \* history: <<5-step?, are_length_counters_clocked>>
                            \* of the last five ticks taken since the mode
                            \* byte was last written, oldest first
    since_write,            \* history: the register of the last register
                            \* write and the ticks taken since it
    output,                 \* main: the output file, one token list a channel
    arg_period,             \* an argument of period_to_pitch (SpecPitch)
    ret_pitch               \* its result, NotConverted before the call

vars == <<channels, channel_regs, reg4015, reg4017, length_counters,
          linear_counter_reload, clock, command, pc, stderr, n_cmds, ticks,
          waited, gate_log, since_write, output, arg_period, ret_pitch>>

\* What process_vgm itself holds (everything but the loop position and history).
apu == <<channels, channel_regs, reg4015, reg4017, length_counters,
         linear_counter_reload, clock>>

----------------------------------------------------------------------------
(* Program constants *)

PULSE1 == 0
PULSE2 == 1
TRI == 2
NOISE == 3

SAMPLES_PER_TICK == 184

MAX_DURATION == 9999

NOISE_TBL == <<100, 100, 100, 100, 90, 90, 90, 90, 80, 80, 80, 80, 70, 70, 70, 70>>

LENGTH_TBL == <<10, 254, 20, 2, 40, 4, 80, 6, 160, 8, 60, 10, 14, 12, 26, 14,
                12, 16, 24, 18, 48, 20, 96, 22, 192, 24, 72, 26, 16, 28, 32, 30>>

WAIT_735 == 735
WAIT_882 == 882

\* The pitch ceiling of period_to_pitch: note numbers from here on are discarded.
PITCH_CEILING == 100

Note(pitch, duration) == [pitch |-> pitch, duration |-> duration]

Channels == 0..3

----------------------------------------------------------------------------
(* Pure functions *)

Max(a, b) == IF a >= b THEN a ELSE b
Min(a, b) == IF a <= b THEN a ELSE b
Last(s) == s[Len(s)]

\* int(round(69 + 12*log2(1789773/(16*(period+1))/440))) tabulated for
\* period in 0..4094: <<p, n>> says the value is n from period p up to the
\* next entry's period.  The value is n exactly when
\*   2^((n-69.5)/12) <= 1789773/(7040*(period+1)) < 2^((n-68.5)/12);
\* no period of the range lies within 0.0003 of a rounding tie.
NOTE_NUMBER_TBL == <<
    <<0, 165>>, <<1, 153>>, <<2, 146>>, <<3, 141>>, <<4, 137>>, <<5, 134>>,
    <<6, 131>>, <<7, 129>>, <<8, 127>>, <<9, 125>>, <<10, 123>>, <<11, 122>>,
    <<12, 120>>, <<13, 119>>, <<14, 118>>, <<15, 117>>, <<16, 116>>,
    <<17, 115>>, <<18, 114>>, <<19, 113>>, <<20, 112>>, <<21, 111>>,
    <<23, 110>>, <<24, 109>>, <<25, 108>>, <<27, 107>>, <<29, 106>>,
    <<30, 105>>, <<32, 104>>, <<34, 103>>, <<36, 102>>, <<38, 101>>,
    <<41, 100>>, <<43, 99>>, <<46, 98>>, <<49, 97>>, <<51, 96>>, <<55, 95>>,
    <<58, 94>>, <<61, 93>>, <<65, 92>>, <<69, 91>>, <<73, 90>>, <<77, 89>>,
    <<82, 88>>, <<87, 87>>, <<92, 86>>, <<98, 85>>, <<103, 84>>, <<110, 83>>,
    <<116, 82>>, <<123, 81>>, <<130, 80>>, <<138, 79>>, <<146, 78>>,
    <<155, 77>>, <<164, 76>>, <<174, 75>>, <<185, 74>>, <<196, 73>>,
    <<207, 72>>, <<220, 71>>, <<233, 70>>, <<246, 69>>, <<261, 68>>,
    <<277, 67>>, <<293, 66>>, <<311, 65>>, <<329, 64>>, <<349, 63>>,
    <<370, 62>>, <<392, 61>>, <<415, 60>>, <<440, 59>>, <<466, 58>>,
    <<493, 57>>, <<523, 56>>, <<554, 55>>, <<587, 54>>, <<622, 53>>,
    <<659, 52>>, <<698, 51>>, <<740, 50>>, <<784, 49>>, <<830, 48>>,
    <<880, 47>>, <<932, 46>>, <<987, 45>>, <<1046, 44>>, <<1108, 43>>,
    <<1174, 42>>, <<1244, 41>>, <<1318, 40>>, <<1397, 39>>, <<1480, 38>>,
    <<1568, 37>>, <<1661, 36>>, <<1760, 35>>, <<1865, 34>>, <<1975, 33>>,
    <<2093, 32>>, <<2217, 31>>, <<2349, 30>>, <<2489, 29>>, <<2637, 28>>,
    <<2794, 27>>, <<2960, 26>>, <<3136, 25>>, <<3323, 24>>, <<3520, 23>>,
    <<3730, 22>>, <<3951, 21>>
    >>

note_number(period) ==
    LET at == CHOOSE k \in 1..Len(NOTE_NUMBER_TBL) :
                /\ NOTE_NUMBER_TBL[k][1] <= period
                /\ (k < Len(NOTE_NUMBER_TBL) => period < NOTE_NUMBER_TBL[k + 1][1])
    IN  NOTE_NUMBER_TBL[at][2]

\* period_to_pitch without the ceiling.
period_to_pitch_no_ceiling(period) == note_number(period)

\* Lines 147-150.
period_to_pitch(period) ==
    IF note_number(period) < PITCH_CEILING THEN note_number(period) ELSE 0

noise_pitch(period) == NOISE_TBL[period + 1]

\* resolve_pitch with a halted channel exempt from the length counter.
resolve_pitch_halt_exempt(i, regs, length_counter) ==
    LET vol0 == IF i = TRI THEN 15 ELSE regs[0] % 16
        vol == IF length_counter = 0 /\ (regs[0] \div 128) % 2 = 0
               THEN 0 ELSE vol0
        period0 == ((regs[3] % 8) * 256) + regs[2]
        period == IF i = TRI THEN period0 * 2 ELSE period0
    IN  IF vol = 0 THEN 0
        ELSE IF i = NOISE THEN noise_pitch(regs[2] % 16)
        ELSE period_to_pitch(period)

\* Lines 91-103: the pitch of channel i from its registers and length counter.
resolve_pitch(i, regs, length_counter) ==
    LET vol0 == IF i = TRI THEN 15 ELSE regs[0] % 16
        vol == IF length_counter = 0 THEN 0 ELSE vol0
        period0 == ((regs[3] % 8) * 256) + regs[2]
        period == IF i = TRI THEN period0 * 2 ELSE period0
    IN  IF vol = 0 THEN 0
        ELSE IF i = NOISE THEN noise_pitch(regs[2] % 16)
        ELSE period_to_pitch(period)

\* emit with a new Note's first tick not counted.
emit_lost_tick(timeline, pitch) ==
    LET last_note == Last(timeline)
    IN  IF pitch = last_note.pitch /\ last_note.duration < MAX_DURATION
        THEN [timeline EXCEPT ![Len(timeline)].duration = @ + 1]
        ELSE Append(timeline, Note(pitch, 0))

\* emit with the cap test one too small: a Note is closed at 9998.
emit_cap_early(timeline, pitch) ==
    LET last_note == Last(timeline)
    IN  IF pitch = last_note.pitch /\ last_note.duration < MAX_DURATION - 1
        THEN [timeline EXCEPT ![Len(timeline)].duration = @ + 1]
        ELSE Append(timeline, Note(pitch, 1))

\* emit with the cap test "<=": a Note grows to 10000.
emit_cap_late(timeline, pitch) ==
    LET last_note == Last(timeline)
    IN  IF pitch = last_note.pitch /\ last_note.duration <= MAX_DURATION
        THEN [timeline EXCEPT ![Len(timeline)].duration = @ + 1]
        ELSE Append(timeline, Note(pitch, 1))

\* Lines 104-108: run-length encoding of one tick's pitch into a timeline.
emit(timeline, pitch) ==
    LET last_note == Last(timeline)
    IN  IF pitch = last_note.pitch /\ last_note.duration < MAX_DURATION
        THEN [timeline EXCEPT ![Len(timeline)].duration = @ + 1]
        ELSE Append(timeline, Note(pitch, 1))

\* Lines 84-89: whether this tick clocks the length counters.
are_length_counters_clocked(mode, clk) ==
    IF (mode \div 64) % 2 = 1 THEN clk % 5 # 4 ELSE TRUE

\* clock_length_counter without the test of the halt bit.
clock_length_counter_no_halt(gate, reg0, length_counter) ==
    IF gate THEN Max(length_counter - 1, 0) ELSE length_counter

\* Lines 109-111: the length counter of a channel after a tick.
clock_length_counter(gate, reg0, length_counter) ==
    IF gate /\ (reg0 \div 128) % 2 = 0
    THEN Max(length_counter - 1, 0)
    ELSE length_counter

\* reload_length without the doubling of the table entry.
reload_length_undoubled(chan_id, byte, linear) ==
    LET length == LENGTH_TBL[(byte \div 8) + 1]
    IN  IF chan_id = TRI THEN Min(length, linear) ELSE length

\* reload_length without the triangle's clamp to the linear counter reload.
reload_length_unclamped(chan_id, byte, linear) ==
    LENGTH_TBL[(byte \div 8) + 1] * 2

\* Line 128 (and 130 for the triangle): the length loaded by a slot 3 write.
reload_length(chan_id, byte, linear) ==
    LET length == LENGTH_TBL[(byte \div 8) + 1] * 2
    IN  IF chan_id = TRI THEN Min(length, linear) ELSE length

\* Lines 123-126: the linear counter reload value set by a triangle slot 0 write.
linear_reload(byte) == IF byte = 0 THEN 0 ELSE byte % 128

IsWait(cmd) == (97 <= cmd /\ cmd <= 99) \/ (112 <= cmd /\ cmd <= 127)

\* Lines 74-81.  struct.unpack('<H', data) needs exactly two bytes.
WaitDecodes(c) == c.cmd = 97 => Len(c.data) = 2

wait_time(c) ==
    IF c.cmd = 97 THEN c.data[1] + 256 * c.data[2]
    ELSE IF c.cmd = 98 THEN WAIT_735
    ELSE IF c.cmd = 99 THEN WAIT_882
    ELSE c.cmd - 112

----------------------------------------------------------------------------
(* State after lines 61-67 *)

NoCommand == [cmd |-> -1, data |-> <<>>]

\* The output file before main opens it (line 44).
NotOpened == <<>>

NotConverted == -1

\* The frame sequencer's cycle in 5-step mode ("clock % 5"); the length of
\* the window of ticks gate_log keeps.
SEQUENCER_STEPS == 5

InitRun ==
    /\ channels = [i \in Channels |-> <<Note(0, 0)>>]
    /\ channel_regs = [i \in Channels |-> [j \in 0..3 |-> 0]]
    /\ reg4015 = 0
    /\ reg4017 = 0
    /\ length_counters = [i \in Channels |-> 0]
    /\ linear_counter_reload = 0
    /\ clock = 0
    /\ command = NoCommand
    /\ pc = "for"
    /\ stderr = <<>>
    /\ n_cmds = 0
    /\ ticks = 0
    /\ waited = 0
    /\ gate_log = <<>>
    /\ since_write = [reg |-> -1, ticks |-> 0]
    /\ output = NotOpened

Init ==
    /\ InitRun
    /\ arg_period = 0
    /\ ret_pitch = NotConverted

----------------------------------------------------------------------------
(* One action per branch of the command loop, and one per tick *)

\* The loop test with ">" for ">=".
after_clock_strict(clk) == IF clk > SAMPLES_PER_TICK THEN "while" ELSE "for"

\* Line 83: the loop test, taken after line 82 and after each iteration.
after_clock(clk) == IF clk >= SAMPLES_PER_TICK THEN "while" ELSE "for"

Fetch(c) ==
    /\ pc = "for"
    /\ command' = c
    /\ n_cmds' = n_cmds + 1
    /\ UNCHANGED <<output, arg_period, ret_pitch>>

\* Lines 72-82: a wait command adds its samples to the clock.
Wait(c) ==
    /\ Fetch(c)
    /\ IsWait(c.cmd)
    /\ WaitDecodes(c)
    /\ clock' = clock + wait_time(c)
    /\ waited' = waited + wait_time(c)
    /\ pc' = after_clock(clock')
    /\ UNCHANGED <<channels, channel_regs, reg4015, reg4017, length_counters,
                   linear_counter_reload, stderr, ticks, gate_log, since_write>>

push_gate(log, entry) ==
    IF Len(log) < SEQUENCER_STEPS THEN Append(log, entry) ELSE Append(Tail(log), entry)

\* Lines 83-112: one iteration of the while loop, all four channels.
Tick ==
    /\ pc = "while"
    /\ clock >= SAMPLES_PER_TICK
    /\ LET gate == are_length_counters_clocked(reg4017, clock)
       IN  /\ channels' = [i \in Channels |->
                 emit(channels[i],
                      resolve_pitch(i, channel_regs[i], length_counters[i]))]
           /\ length_counters' = [i \in Channels |->
                 clock_length_counter(gate, channel_regs[i][0], length_counters[i])]
           /\ gate_log' = push_gate(gate_log, <<(reg4017 \div 64) % 2 = 1, gate>>)
    /\ clock' = clock - SAMPLES_PER_TICK
    /\ ticks' = ticks + 1
    /\ pc' = after_clock(clock')
    /\ since_write' = [since_write EXCEPT !.ticks = @ + 1]
    /\ UNCHANGED <<channel_regs, reg4015, reg4017, linear_counter_reload,
                   command, stderr, n_cmds, waited, output, arg_period, ret_pitch>>

\* Line 115: "reg, byte = data" needs exactly two bytes.
WriteDecodes(c) == Len(c.data) = 2

\* write_channel_reg without the test for the triangle: slot 0 of any
\* channel sets the linear counter reload value.
write_channel_reg_any_slot0(reg, byte) ==
    LET chan_id == reg \div 4
        chan_reg == reg % 4
        linear == IF chan_reg = 0
                  THEN linear_reload(byte) ELSE linear_counter_reload
    IN  /\ channel_regs' = [channel_regs EXCEPT ![chan_id][chan_reg] = byte]
        /\ linear_counter_reload' = linear
        /\ length_counters' =
              IF chan_reg = 3
              THEN [length_counters EXCEPT
                       ![chan_id] = reload_length(chan_id, byte, linear)]
              ELSE length_counters
        /\ UNCHANGED <<reg4015, reg4017, stderr>>

\* Lines 116-131: a write to one of the sixteen channel registers.
write_channel_reg(reg, byte) ==
    LET chan_id == reg \div 4
        chan_reg == reg % 4
        linear == IF chan_reg = 0 /\ chan_id = TRI
                  THEN linear_reload(byte) ELSE linear_counter_reload
    IN  /\ channel_regs' = [channel_regs EXCEPT ![chan_id][chan_reg] = byte]
        /\ linear_counter_reload' = linear
        /\ length_counters' =
              IF chan_reg = 3
              THEN [length_counters EXCEPT
                       ![chan_id] = reload_length(chan_id, byte, linear)]
              ELSE length_counters
        /\ UNCHANGED <<reg4015, reg4017, stderr>>

\* write_enable_mask silencing, as the chip does, each channel whose enable
\* bit is clear.
write_enable_mask_disables(byte) ==
    /\ reg4015' = byte
    /\ length_counters' = [i \in Channels |->
          IF (byte \div (2 ^ i)) % 2 = 0 THEN 0 ELSE length_counters[i]]
    /\ UNCHANGED <<channel_regs, reg4017, linear_counter_reload, stderr>>

\* Lines 132-133: the enable mask is stored.
write_enable_mask(byte) ==
    /\ reg4015' = byte
    /\ UNCHANGED <<channel_regs, reg4017, length_counters,
                   linear_counter_reload, stderr>>

\* Lines 134-135: the mode byte is stored.
write_mode(byte) ==
    /\ reg4017' = byte
    /\ UNCHANGED <<channel_regs, reg4015, length_counters,
                   linear_counter_reload, stderr>>

\* write_other_reg reporting the register as an unsupported command.
write_other_reg_warns(reg, byte) ==
    /\ stderr' = Append(stderr, 180)
    /\ UNCHANGED <<channel_regs, reg4015, reg4017, length_counters,
                   linear_counter_reload>>

\* Lines 116-135: no branch takes any other register; nothing is done.
write_other_reg(reg, byte) ==
    UNCHANGED <<channel_regs, reg4015, reg4017, length_counters,
                linear_counter_reload, stderr>>

\* Lines 113-135: an APU register write.
WriteReg(c) ==
    /\ Fetch(c)
    /\ c.cmd = 180
    /\ WriteDecodes(c)
    /\ gate_log' = IF c.data[1] = 23 THEN <<>> ELSE gate_log
    /\ since_write' = [reg |-> c.data[1], ticks |-> 0]
    /\ LET reg == c.data[1]
           byte == c.data[2]
       IN  IF reg < 16 THEN write_channel_reg(reg, byte)
           ELSE IF reg = 21 THEN write_enable_mask(byte)
           ELSE IF reg = 23 THEN write_mode(byte)
           ELSE write_other_reg(reg, byte)
    /\ UNCHANGED <<channels, clock, pc, ticks, waited>>

\* EndOfData without the break: the loop goes on to the next command.
EndOfData_no_break(c) ==
    /\ Fetch(c)
    /\ c.cmd = 102
    /\ UNCHANGED <<apu, pc, stderr, ticks, waited, gate_log, since_write>>

\* Lines 136-138: end of data breaks out of the loop.
EndOfData(c) ==
    /\ Fetch(c)
    /\ c.cmd = 102
    /\ pc' = "returned"
    /\ UNCHANGED <<apu, stderr, ticks, waited, gate_log, since_write>>

\* Unsupported ending the run after its warning.
Unsupported_breaks(c) ==
    /\ Fetch(c)
    /\ ~IsWait(c.cmd)
    /\ c.cmd # 180
    /\ c.cmd # 102
    /\ stderr' = Append(stderr, c.cmd)
    /\ pc' = "returned"
    /\ UNCHANGED <<apu, ticks, waited, gate_log, since_write>>

\* Lines 139-140: any other opcode is reported and skipped.
Unsupported(c) ==
    /\ Fetch(c)
    /\ ~IsWait(c.cmd)
    /\ c.cmd # 180
    /\ c.cmd # 102
    /\ stderr' = Append(stderr, c.cmd)
    /\ UNCHANGED <<apu, pc, ticks, waited, gate_log, since_write>>

\* Raise with the error swallowed: the timelines built so far are returned.
Raise_returns(c) ==
    /\ Fetch(c)
    /\ \/ IsWait(c.cmd) /\ ~WaitDecodes(c)
       \/ c.cmd = 180 /\ ~WriteDecodes(c)
    /\ pc' = "returned"
    /\ UNCHANGED <<apu, stderr, ticks, waited, gate_log, since_write>>

\* Lines 75 and 115: a payload of the wrong length raises out of process_vgm.
Raise(c) ==
    /\ Fetch(c)
    /\ \/ IsWait(c.cmd) /\ ~WaitDecodes(c)
       \/ c.cmd = 180 /\ ~WriteDecodes(c)
    /\ pc' = "raised"
    /\ UNCHANGED <<apu, stderr, ticks, waited, gate_log, since_write>>

\* Line 69: the command list is exhausted; line 142 returns.
Exhausted ==
    /\ pc = "for"
    /\ pc' = "returned"
    /\ UNCHANGED <<apu, command, stderr, n_cmds, ticks, waited, gate_log,
                   since_write, output, arg_period, ret_pitch>>

\* Lines 47-50: the pitch and duration of every Note, in order.  A token is
\* the number whose decimal form str() writes.
RECURSIVE byte_list(_)
byte_list(timeline) ==
    IF timeline = <<>> THEN <<>>
    ELSE <<timeline[1].pitch, timeline[1].duration>> \o byte_list(Tail(timeline))

\* Lines 47-52: the tokens of one channel, ended by the terminator "0 0".
serialize(timeline) == byte_list(timeline) \o <<0, 0>>

\* Lines 42-57: process_vgm has returned; main opens and writes the output.
WriteOutput ==
    /\ pc = "returned"
    /\ output' = [i \in Channels |-> serialize(channels[i])]
    /\ pc' = "exit"
    /\ UNCHANGED <<apu, command, stderr, n_cmds, ticks, waited, gate_log,
                   since_write, arg_period, ret_pitch>>

----------------------------------------------------------------------------
(* Command streams explored *)

Cmd(op, payload) == [cmd |-> op, data |-> payload]
Write(reg, byte) == Cmd(180, <<reg, byte>>)

\* Longest command list of Spec.
MaxCmds == 4

\* Waits of 184 samples (one tick), 736 (four ticks), 735 (three ticks, 183
\* samples left over) and 15 (no tick on its own).
WaitCmds ==
    { Cmd(97, <<184, 0>>), Cmd(97, <<224, 2>>), Cmd(98, <<>>), Cmd(127, <<>>) }

\* Register writes.  Pulse 1: volume 15 with and without the halt bit, and
\* slot 3 with length index 3 (4 ticks) and period 256.  Pulse 2: volume 15
\* and slot 3 with period 0, whose note number is above the ceiling.
\* Triangle: linear reload 3, a halted slot 0 with linear reload 0, and
\* slot 3.  Noise: volume 15 and slot 3 with length index 1 (508 ticks).
\* The mode byte in both modes, the enable mask, and a register that is none
\* of these.
WriteCmds ==
    { Write(0, 143), Write(0, 15), Write(3, 25),
      Write(4, 15), Write(7, 24),
      Write(8, 3), Write(8, 128), Write(11, 25),
      Write(12, 15), Write(15, 8),
      Write(23, 64), Write(23, 0), Write(21, 0), Write(16, 1) }

EndCmds == { Cmd(102, <<>>) }

UnsupportedCmds == { Cmd(103, <<>>), Cmd(80, <<1>>) }

\* A 16-bit wait and a register write that lost a payload byte.
MalformedCmds == { Cmd(97, <<184>>), Cmd(180, <<3>>) }

Next ==
    \/ \E c \in WaitCmds : n_cmds < MaxCmds /\ Wait(c)
    \/ Tick
    \/ \E c \in WriteCmds : n_cmds < MaxCmds /\ WriteReg(c)
    \/ \E c \in EndCmds : n_cmds < MaxCmds /\ EndOfData(c)
    \/ \E c \in UnsupportedCmds : n_cmds < MaxCmds /\ Unsupported(c)
    \/ \E c \in MalformedCmds : n_cmds < MaxCmds /\ Raise(c)
    \/ Exhausted
    \/ WriteOutput

Spec == Init /\ [][Next]_vars

----------------------------------------------------------------------------
(* Long command streams: a few register writes, then maximal 16-bit waits,  *)
(* enough of them for a Note to reach MAX_DURATION.                         *)

\* Most register writes ahead of the first wait.
MaxSetupCmds == 3

\* Longest command list of SpecCap: 29 waits of 65535 samples make 10328 ticks.
MaxCapCmds == 32

\* Pulse 1: volume 15 with and without the halt bit, period low byte 0x54,
\* and slot 3 with length index 1 (508 ticks) and period high bits 0.
CapWriteCmds == { Write(0, 143), Write(0, 15), Write(2, 84), Write(3, 8) }

\* 65535 samples: 356 ticks and 31 samples left over.
CapWaitCmds == { Cmd(97, <<255, 255>>) }

NextCap ==
    \/ \E c \in CapWriteCmds : waited = 0 /\ n_cmds < MaxSetupCmds /\ WriteReg(c)
    \/ \E c \in CapWaitCmds : n_cmds < MaxCapCmds /\ Wait(c)
    \/ Tick
    \/ Exhausted

SpecCap == Init /\ [][NextCap]_vars

----------------------------------------------------------------------------
(* period_to_pitch on its own: every period the resolver can pass, then     *)
(* larger periods in strides.                                               *)

\* Largest argument of period_to_pitch: the 11-bit period of line 100,
\* doubled for the triangle (line 102).
MAX_PERIOD == 4094

\* Longest stride from one period to a larger one.
MaxStride == 64

InitPitch ==
    /\ InitRun
    /\ arg_period \in 0..MAX_PERIOD
    /\ ret_pitch = NotConverted

Convert ==
    /\ ret_pitch = NotConverted
    /\ ret_pitch' = period_to_pitch(arg_period)
    /\ UNCHANGED <<apu, command, pc, stderr, n_cmds, ticks, waited, gate_log,
                   since_write, output, arg_period>>

ConvertLarger ==
    /\ ret_pitch # NotConverted
    /\ \E q \in (arg_period + 1)..Min(arg_period + MaxStride, MAX_PERIOD) :
          /\ arg_period' = q
          /\ ret_pitch' = period_to_pitch(q)
    /\ UNCHANGED <<apu, command, pc, stderr, n_cmds, ticks, waited, gate_log,
                   since_write, output>>

NextPitch == Convert \/ ConvertLarger

SpecPitch == InitPitch /\ [][NextPitch]_vars

----------------------------------------------------------------------------
(* Claims *)

RECURSIVE total_duration(_)
total_duration(timeline) ==
    IF timeline = <<>> THEN 0
    ELSE Last(timeline).duration
         + total_duration(SubSeq(timeline, 1, Len(timeline) - 1))

\* A step that is one iteration of the while loop.
IsTickStep == ticks' = ticks + 1

\* A step that fetches and handles a command.
IsCommandStep == n_cmds' = n_cmds + 1

\* The pitch the tick just taken emitted for channel i (after a tick step).
emitted(i) == Last(channels[i]).pitch

\* C1: in every state, the durations of the Notes of each channel's timeline
\* (the placeholder included) add up to the number of ticks performed.
C1_ConservationOfTime ==
    \A i \in Channels : total_duration(channels[i]) = ticks

\* Several ticks taken and a timeline of at least three Notes.
C1_Witness ==
    /\ ticks >= 5
    /\ \E i \in Channels : Len(channels[i]) >= 3

\* C2: the clock is never negative and always holds the samples waited minus
\* 184 per tick; outside the tick loop it is below 184 and the ticks are the
\* floor of the samples waited over 184; and the clock changes only by a wait
\* command adding its samples or by a tick subtracting exactly 184.
C2_TickAccounting ==
    /\ [](/\ clock >= 0
          /\ waited = ticks * 184 + clock
          /\ pc # "while" => /\ clock < 184
                             /\ ticks = waited \div 184)
    /\ [][\/ clock' = clock
          \/ IsTickStep /\ clock' = clock - 184
          \/ /\ IsCommandStep
             /\ IsWait(command'.cmd)
             /\ clock' = clock + wait_time(command')
             /\ waited' = waited + wait_time(command')]_vars

\* 735 and 15 samples in separate waits: three ticks, none, and a fourth one
\* that neither wait makes alone.
C2_Witness ==
    /\ pc = "for"
    /\ waited = 750
    /\ ticks = 4
    /\ n_cmds = 2

\* C3: adjacent Notes of a timeline have equal pitch only if the earlier one
\* has duration 9999.
C3_MinimalRunLength ==
    \A i \in Channels : \A k \in 1..(Len(channels[i]) - 1) :
        channels[i][k].pitch = channels[i][k + 1].pitch
            => channels[i][k].duration = 9999

\* A sounding channel whose Note was closed at the cap and continued, beside
\* a timeline whose pitch changed.
C3_Witness ==
    /\ \E k \in 1..(Len(channels[PULSE1]) - 1) :
          /\ channels[PULSE1][k].pitch # 0
          /\ channels[PULSE1][k].pitch = channels[PULSE1][k + 1].pitch
          /\ channels[PULSE1][k].duration = 9999
    /\ channels[PULSE1][1].pitch # channels[PULSE1][2].pitch

\* C4: no Note has a duration above 9999, and a tick whose pitch equals that
\* of a last Note of duration 9999 appends a Note of that pitch and duration 1.
C4_DurationCap ==
    /\ [](\A i \in Channels : \A k \in 1..Len(channels[i]) :
             channels[i][k].duration <= 9999)
    /\ [][IsTickStep =>
            \A i \in Channels :
               (/\ Last(channels[i]).duration = 9999
                /\ Last(channels'[i]).pitch = Last(channels[i]).pitch)
               => channels'[i]
                     = Append(channels[i], Note(Last(channels[i]).pitch, 1))]_vars

\* A silent channel right after its tick 10000.
C4_Witness ==
    /\ ticks = 10000
    /\ channels[PULSE2] = <<Note(0, 9999), Note(0, 1)>>

\* C5: at every tick, a channel whose length counter is 0 when its pitch is
\* resolved emits pitch 0, whatever its halt bit, volume and period registers.
C5_ZeroLengthIsSilence ==
    [][IsTickStep =>
         \A i \in Channels :
            length_counters[i] = 0 => Last(channels'[i]).pitch = 0]_vars

\* The first tick after a triangle slot 3 write that loaded length 0 (linear
\* reload 0), with the halt bit set and a period whose pitch is audible.
C5_Witness ==
    /\ ticks = 1
    /\ channel_regs[TRI][0] = 128
    /\ channel_regs[TRI][3] = 25
    /\ length_counters[TRI] = 0
    /\ period_to_pitch(2 * 256) # 0
    /\ emitted(TRI) = 0

\* C6: a tick takes 1 off a channel's length counter (not below 0) exactly
\* when the tick's gate is on and bit 7 of the channel's slot 0 is clear, and
\* leaves it unchanged otherwise; the pitch emitted at the tick is the one
\* resolved with the counter as it was before the tick; no counter is negative.
C6_CounterClocking ==
    /\ [](\A i \in Channels : length_counters[i] >= 0)
    /\ [][IsTickStep =>
            \A i \in Channels :
               LET gate == Last(gate_log')[2]
                   halted == channel_regs[i][0] >= 128
                   before == length_counters[i]
               IN  /\ length_counters'[i] =
                         IF gate /\ ~halted
                         THEN (IF before > 0 THEN before - 1 ELSE 0)
                         ELSE before
                   /\ Last(channels'[i]).pitch =
                         resolve_pitch(i, channel_regs[i], before)]_vars

\* Four ticks in 5-step mode with pulse 1 sounding and not halted: three took
\* its length counter from 4 to 1, the fourth had the gate off and left it.
C6_Witness ==
    /\ ticks = 4
    /\ channel_regs[PULSE1][0] = 15
    /\ emitted(PULSE1) # 0
    /\ gate_log = <<<<TRUE, TRUE>>, <<TRUE, TRUE>>, <<TRUE, TRUE>>, <<TRUE, FALSE>>>>
    /\ length_counters[PULSE1] = 1

\* C7: with the mode byte selecting 5-step mode, any five consecutive ticks
\* have the gate off on exactly one of them; in 4-step mode the gate is on at
\* every tick.
C7_FrameSequencerGating ==
    /\ \A k \in 1..Len(gate_log) : ~gate_log[k][1] => gate_log[k][2]
    /\ (Len(gate_log) = 5 /\ \A k \in 1..5 : gate_log[k][1])
          => Cardinality({k \in 1..5 : ~gate_log[k][2]}) = 1

\* C8: a slot 3 write of byte b loads the channel's length counter with
\* 2 * LENGTH_TBL[b >> 3], for the triangle with the smaller of that and the
\* linear counter reload value at the time of the write, and changes no other
\* length counter; a write to slot 0, 1 or 2 changes no length counter.
C8_LengthReload ==
    [][(/\ IsCommandStep
        /\ command'.cmd = 180
        /\ Len(command'.data) = 2
        /\ command'.data[1] < 16)
       => LET chan == command'.data[1] \div 4
              slot == command'.data[1] % 4
              full == 2 * LENGTH_TBL[(command'.data[2] \div 8) + 1]
              load == IF chan = 2 /\ linear_counter_reload < full
                      THEN linear_counter_reload ELSE full
          IN  IF slot = 3
              THEN length_counters' = [length_counters EXCEPT ![chan] = load]
              ELSE length_counters' = length_counters]_vars

\* A triangle slot 3 write just clamped length 4 to the linear reload 3, and
\* pulse 1 holds an unclamped load.
C8_Witness ==
    /\ command = Write(11, 25)
    /\ linear_counter_reload = 3
    /\ length_counters[TRI] = 3
    /\ length_counters[PULSE1] = 4

\* C9: the end-of-data command changes no register, counter, clock or
\* timeline and ends the run with the clock below one tick; once it has been
\* handled nothing changes any more, no warning is printed and no tick taken.
C9_EndOfStream ==
    /\ [](command.cmd = 102 => pc \in {"returned", "exit"} /\ clock < 184)
    /\ [][(command.cmd = 102 \/ command'.cmd = 102)
             => UNCHANGED <<apu, stderr, ticks, waited>>]_vars

\* End of data handled with samples left in the clock, ticks committed and
\* room for more commands in the list.
C9_Witness ==
    /\ pc = "returned"
    /\ command.cmd = 102
    /\ clock = 183
    /\ ticks = 3
    /\ n_cmds < MaxCmds

\* C10: a command that is no wait, register write or end of data prints one
\* warning naming its opcode, changes no register, counter, clock or
\* timeline, and leaves the loop going on to the next command.
C10_UnsupportedSkipped ==
    [][(/\ IsCommandStep
        /\ ~IsWait(command'.cmd)
        /\ command'.cmd \notin {180, 102})
       => /\ stderr' = Append(stderr, command'.cmd)
          /\ UNCHANGED <<apu, ticks, waited>>
          /\ pc' = "for"]_vars

\* A warning for opcode 0x50 was printed and a later wait made a tick.
C10_Witness ==
    /\ stderr = <<80>>
    /\ IsWait(command.cmd)
    /\ ticks >= 1

\* A step that handles a well-formed register write to a register that is
\* neither a channel register nor 0x15 nor 0x17.
IsOtherRegWrite ==
    /\ IsCommandStep
    /\ command'.cmd = 180
    /\ Len(command'.data) = 2
    /\ command'.data[1] \notin (0..15) \cup {21, 23}

\* C11 (as claimed): a write to a register outside 0x00-0x0F, 0x15 and 0x17
\* is reported as a warning and skipped without changing any state.
C11_OtherRegisterWarned ==
    [][IsOtherRegWrite =>
          /\ Len(stderr') = Len(stderr) + 1
          /\ UNCHANGED <<apu, ticks, waited>>]_vars

\* C11 (amended): such a write is skipped silently: it prints no warning,
\* changes no register, counter, clock or timeline, and the loop goes on to
\* the next command.
C11_OtherRegisterIgnored ==
    [][IsOtherRegWrite =>
          /\ UNCHANGED <<apu, stderr, ticks, waited>>
          /\ pc' = "for"]_vars

\* A write to register 0x10 was handled after a tick and no warning exists.
C11_Witness ==
    /\ command = Write(16, 1)
    /\ stderr = <<>>
    /\ ticks >= 1

\* C12 (as claimed): no Note of any timeline has a pitch of 100 or more.
C12_NoHighPitch ==
    \A i \in Channels : \A k \in 1..Len(channels[i]) :
        channels[i][k].pitch < 100

\* C12 (amended): no Note of pulse 1, pulse 2 or the triangle has a pitch of
\* 100 or more; a Note of the noise channel has pitch 0 or an entry of
\* NOISE_TBL, which is at most 100.
C12_NoHighPitchFromPeriod ==
    /\ \A i \in {PULSE1, PULSE2, TRI} : \A k \in 1..Len(channels[i]) :
          channels[i][k].pitch < 100
    /\ \A k \in 1..Len(channels[NOISE]) :
          /\ channels[NOISE][k].pitch <= 100
          /\ \/ channels[NOISE][k].pitch = 0
             \/ \E j \in 1..Len(NOISE_TBL) : channels[NOISE][k].pitch = NOISE_TBL[j]

\* Pulse 2 with volume 15, a loaded length counter and period 0 (note number
\* 165) took a tick and emitted 0.
C12_Witness ==
    /\ since_write = [reg |-> 7, ticks |-> 1]
    /\ channel_regs[PULSE2] =
          [j \in 0..3 |-> IF j = 0 THEN 15 ELSE IF j = 3 THEN 24 ELSE 0]
    /\ length_counters[PULSE2] > 0
    /\ note_number(0) >= 100
    /\ emitted(PULSE2) = 0

\* C13: with pulse 1 set up before any tick as halt bit set, volume 15,
\* period 0x054 and slot 3 written, and in 4-step mode, after N ticks
\* (1 <= N <= 9999) and no other write its timeline is the placeholder
\* Note(0, 0) and one Note of duration N with pitch 88, which is
\* round(69 + 12*log2(1789773/(16*85)/440)); its length counter still holds
\* the 508 loaded by the slot 3 write.
C13_HaltedChannelSustains ==
    (/\ channel_regs[PULSE1] =
           [j \in 0..3 |-> IF j = 0 THEN 143 ELSE IF j = 2 THEN 84
                           ELSE IF j = 3 THEN 8 ELSE 0]
     /\ (reg4017 \div 64) % 2 = 0
     /\ since_write.ticks = ticks
     /\ 1 <= ticks
     /\ ticks <= 9999)
    => /\ channels[PULSE1] = <<Note(0, 0), Note(88, ticks)>>
       /\ length_counters[PULSE1] = 508

\* The halted pulse 1 has sounded for 9999 ticks, spread over 29 waits.
C13_Witness ==
    /\ channel_regs[PULSE1][0] = 143
    /\ ticks = 9999
    /\ n_cmds = 32
    /\ channels[PULSE1] = <<Note(0, 0), Note(88, 9999)>>

\* C14: a write to register 0x15 changes no channel register, length
\* counter, linear counter reload, mode byte, clock or timeline, prints
\* nothing and leaves the loop going; only the stored mask byte, which
\* nothing reads, takes the value written.
C14_EnableMaskUnmodeled ==
    [][(/\ IsCommandStep
        /\ command'.cmd = 180
        /\ Len(command'.data) = 2
        /\ command'.data[1] = 21)
       => /\ UNCHANGED <<channels, channel_regs, reg4017, length_counters,
                         linear_counter_reload, clock, stderr, ticks, waited>>
          /\ reg4015' = command'.data[2]
          /\ pc' = "for"]_vars

\* Pulse 1 sounds at the tick after a mask write that disables every channel.
C14_Witness ==
    /\ since_write = [reg |-> 21, ticks |-> 1]
    /\ reg4015 = 0
    /\ length_counters[PULSE1] > 0
    /\ emitted(PULSE1) # 0

\* The command fetched last cannot be decoded.
IsMalformed(c) ==
    \/ c.cmd = 97 /\ Len(c.data) # 2
    \/ c.cmd = 180 /\ Len(c.data) # 2

\* C15: once a 0x61 wait or a register write whose payload is not two bytes
\* has been fetched, the run is aborted and the output is never opened,
\* whatever was processed before; the output exists only after a return.
C15_FatalErrorNoOutput ==
    /\ IsMalformed(command) => pc = "raised"
    /\ pc = "raised" => output = NotOpened
    /\ output # NotOpened => pc = "exit"

\* A truncated 16-bit wait aborted a run that had already taken ticks.
C15_Witness ==
    /\ pc = "raised"
    /\ command = Cmd(97, <<184>>)
    /\ ticks >= 1
    /\ Len(channels[PULSE1]) >= 2
    /\ output = NotOpened

\* A step from a converted period to a larger one.
IsLargerPeriodStep == ret_pitch # NotConverted /\ arg_period' > arg_period

\* C16 (as claimed): period_to_pitch is non-increasing over 0..4094.
C16_PitchMonotone ==
    [][IsLargerPeriodStep => ret_pitch' <= ret_pitch]_vars

\* C16 (amended): period_to_pitch is 0 for the periods 0..42, whose note
\* number is 100 or more, and non-increasing over the periods 43..4094, where
\* it runs from 99 down to 21.
C16_PitchMonotoneBelowCeiling ==
    /\ [](ret_pitch # NotConverted =>
             IF arg_period <= 42 THEN ret_pitch = 0
             ELSE 21 <= ret_pitch /\ ret_pitch <= 99)
    /\ [][(IsLargerPeriodStep /\ arg_period >= 43)
             => ret_pitch' <= ret_pitch]_vars

\* The first period below the ceiling, converted.
C16_Witness ==
    /\ arg_period = 43
    /\ ret_pitch = 99

\* C17: in 4-step mode, when the last register write was to slot 3 of a
\* channel and loaded its length counter with L > 0, the channel's halt bit
\* is clear, its volume is nonzero and its registers resolve to a pitch
\* P # 0, then the k-th tick after the write emits P if k <= L and 0 if k > L.
C17_LengthBoundsAudibleTime ==
    \A i \in Channels :
        LET regs == channel_regs[i]
            k == since_write.ticks
            full == 2 * LENGTH_TBL[(regs[3] \div 8) + 1]
            L == IF i = TRI /\ linear_counter_reload < full
                 THEN linear_counter_reload ELSE full
            P == resolve_pitch(i, regs, L)
        IN  (/\ since_write.reg = 4 * i + 3
             /\ (reg4017 \div 64) % 2 = 0
             /\ regs[0] < 128
             /\ i # TRI => regs[0] % 16 # 0
             /\ L > 0
             /\ P # 0
             /\ k >= 1)
            => Last(channels[i]).pitch = (IF k <= L THEN P ELSE 0)

\* Pulse 1, loaded with length 4, sounded for four ticks and was silent at
\* the fifth.
C17_Witness ==
    /\ since_write = [reg |-> 3, ticks |-> 5]
    /\ channel_regs[PULSE1][0] = 15
    /\ channels[PULSE1] = <<Note(0, 0), Note(69, 4), Note(0, 1)>>

\* C18: at every tick at which linear_counter_reload is 0 the triangle emits
\* pitch 0.
C18_ZeroLinearCounterMutes ==
    [][(IsTickStep /\ linear_counter_reload = 0)
          => Last(channels'[TRI]).pitch = 0]_vars

\* C19: in the stream written for each channel the pair (0, 0) occurs only
\* as the final pair, and no Note of a returned timeline has duration 0.
C19_TerminatorUnique ==
    /\ output # NotOpened =>
          \A i \in Channels :
             \A k \in 1..((Len(output[i]) \div 2) - 1) :
                ~(output[i][2 * k - 1] = 0 /\ output[i][2 * k] = 0)
    /\ pc \in {"returned", "exit"} =>
          \A i \in Channels : \A k \in 1..Len(channels[i]) :
             channels[i][k].duration # 0

\* C20: a register write changes neither the clock nor a timeline, and of
\* the registers and counters at most the byte addressed, the linear counter
\* reload value when it addresses slot 0 of the triangle (register 8), and
\* the addressed channel's length counter when it addresses a slot 3; a wait
\* command, its ticks included, changes no register byte, neither chip-wide
\* byte and not the linear counter reload value.
C20_FrameConditions ==
    [][/\ (/\ IsCommandStep
           /\ command'.cmd = 180
           /\ Len(command'.data) = 2)
          => LET reg == command'.data[1]
                 chan == reg \div 4
                 slot == reg % 4
             IN  /\ clock' = clock
                 /\ channels' = channels
                 /\ \A i \in Channels : \A j \in 0..3 :
                       (reg >= 16 \/ i # chan \/ j # slot)
                          => channel_regs'[i][j] = channel_regs[i][j]
                 /\ reg # 21 => reg4015' = reg4015
                 /\ reg # 23 => reg4017' = reg4017
                 /\ reg # 8 => linear_counter_reload' = linear_counter_reload
                 /\ \A i \in Channels :
                       (reg >= 16 \/ slot # 3 \/ i # chan)
                          => length_counters'[i] = length_counters[i]
       /\ (IsTickStep \/ (IsCommandStep /\ IsWait(command'.cmd)))
          => UNCHANGED <<channel_regs, reg4015, reg4017,
                         linear_counter_reload>>]_vars

\* A triangle slot 3 write handled after three ticks, with 183 samples and
\* the timelines of those ticks left as they were.
C20_Witness ==
    /\ command = Write(11, 25)
    /\ since_write = [reg |-> 11, ticks |-> 0]
    /\ clock = 183
    /\ ticks = 3
    /\ \A i \in Channels : channels[i] = <<Note(0, 3)>>

====
